---- MODULE Spec2Model ----
(***************************************************************************)
(* Model of lib/sessionStore.js (Thorin session plugin): the session store *)
(* wrapper ThorinSessionStore with its identifier signing, storage-key     *)
(* derivation and payload cipher helpers.                                  *)
(*                                                                         *)
(* JavaScript values are records [t |-> type, s |-> text], where text is a *)
(* sequence of one-character strings.  Session payloads (SessionData) are  *)
(* records with the further fields id, data and dirty.                     *)
(***************************************************************************)
EXTENDS Integers, Sequences, FiniteSets, Bags, TLC

VARIABLES
  opt,      \* the plugin options: [secret |-> value, encrypt |-> value]
  store,    \* this[store]: Null, or the attached backend instance
  created,  \* number of createStore invocations so far
  storage,  \* the records held by the backend: a function key -> record
  pending,  \* the bag of backend calls in flight, each with its callback's closure
  last,     \* the handler step run last: its done() invocations and backend calls
  written,  \* history: per identifier, the completed save or destroy that left its record
  ret       \* the helper calls made last: <<[fn, sid, data, out]>>

vars == <<opt, store, created, storage, pending, last, written, ret>>

----------------------------------------------------------------------------
(* Bounds of the model *)

MaxIdLen == 2      \* longest raw identifier drawn as an input
HmacLen == 1       \* digits of an hmac digest (scaled down from 40)
MaxPending == 2    \* most backend calls in flight at once
MaxCreate == 2     \* most createStore invocations

----------------------------------------------------------------------------
(* JavaScript values *)

Str(s) == [t |-> "string", s |-> s]
Obj(s) == [t |-> "object", s |-> s]
Num(s) == [t |-> "number", s |-> s]
Undefined == [t |-> "undefined", s |-> <<>>]
Null == [t |-> "null", s |-> <<>>]
JsFalse == [t |-> "boolean", s |-> <<"f">>]
JsTrue == [t |-> "boolean", s |-> <<"t">>]
Thrown(name) == [t |-> "thrown", s |-> <<name>>]
EmptyObject == Obj(<<"{", "}">>)

\* JavaScript truthiness (the tests `!x`, `if(x)`, `a && b`).
Truthy(v) ==
  CASE v.t = "undefined" -> FALSE
    [] v.t = "null" -> FALSE
    [] v.t = "boolean" -> v = JsTrue
    [] v.t = "string" -> v.s # <<>>
    [] v.t = "number" -> v.s # <<"0">>
    [] OTHER -> TRUE

\* typeof v
TypeOf(v) ==
  CASE v.t \in {"null", "object", "SessionData", "error"} -> "object"
    [] OTHER -> v.t

\* All texts of at most n characters over chars.
Texts(chars, n) == UNION {[1..k -> chars] : k \in 0..n}

----------------------------------------------------------------------------
(* The characters of the model and the host's utility primitives *)

Alphabet == <<"0", "1", "2", "3", "a", "b", ".", "#", "{", "}", "~", "t", "f">>
Digits == <<"0", "1", "2", "3">>

Code(c) == CHOOSE i \in 1..Len(Alphabet) : Alphabet[i] = c

RECURSIVE Mix(_, _, _)
\* A running checksum of text, starting from h, modulo m.
Mix(text, h, m) ==
  IF text = <<>> THEN h
  ELSE Mix(Tail(text), (h * (Len(Alphabet) + 2) + Code(Head(text))) % m, m)

RECURSIVE Pow(_, _)
Pow(b, n) == IF n = 0 THEN 1 ELSE b * Pow(b, n - 1)

\* n written with `width` digits, most significant first.
Render(n, width) ==
  [i \in 1..width |-> Digits[((n \div Pow(Len(Digits), width - i)) % Len(Digits)) + 1]]

\* A digest of `width` digits of text under the key text `key`.
Digest(key, text, width) ==
  LET m == Pow(Len(Digits), width)
  IN Render(Mix(text, Mix(key, Len(key) + 1, m), m), width)

\* thorin.util.hmac(text, secret, 'sha1'): a keyed digest, as text of digits.
UtilHmac(text, secret) == Digest(secret, text, HmacLen)

\* sha2 digests are longer than the identifiers (64 characters against 48).
HashLen == MaxIdLen + 1

\* thorin.util.sha2(text): an unkeyed digest, as text of digits.
UtilSha2(text) == Digest(<<>>, text, HashLen)

\* thorin.util.compare(a, b): constant-time equality of two texts.
UtilCompare(a, b) == a = b

\* JSON.stringify(v) of an object.  An object whose text holds "~" is a
\* circular structure: JSON.stringify throws on it.
IsCircular(v) == v.t = "object" /\ \E i \in 1..Len(v.s) : v.s[i] = "~"
JsonStringify(v) == IF IsCircular(v) THEN Thrown("TypeError") ELSE Str(v.s)

\* The text thorin.util.encrypt enciphers for data: text as it is, an object
\* through JSON.stringify, a number or boolean through toString(); null and
\* undefined have no toString and throw.
Serialize(data) ==
  CASE data.t = "string" -> data
    [] data.t = "object" -> JsonStringify(data)
    [] data.t \in {"number", "boolean"} -> Str(data.s)
    [] OTHER -> Thrown("TypeError")

RECURSIVE Dedup(_)
\* The members of an object text, a repeated member kept once.
Dedup(ms) ==
  IF ms = <<>> THEN <<>>
  ELSE LET rest == Dedup(Tail(ms))
       IN IF \E i \in 1..Len(rest) : rest[i] = Head(ms)
          THEN rest ELSE <<Head(ms)>> \o rest

IsDigit(c) == \E i \in 1..Len(Digits) : Digits[i] = c
IsJsonObject(text) ==
  /\ Len(text) >= 2
  /\ text[1] = "{"
  /\ text[Len(text)] = "}"
  /\ \A i \in 2..(Len(text) - 1) : text[i] \in {"a", "b"}
IsJsonNumber(text) ==
  /\ text # <<>>
  /\ \A i \in 1..Len(text) : IsDigit(text[i])
  /\ (Len(text) > 1 => text[1] # "0")

\* JSON.parse(text): the value, or Thrown when text is no JSON.
JsonParse(text) ==
  CASE IsJsonObject(text) ->
         Obj(<<"{">> \o Dedup(SubSeq(text, 2, Len(text) - 1)) \o <<"}">>)
    [] IsJsonNumber(text) -> Num(text)
    [] OTHER -> Thrown("SyntaxError")

\* The cipher key schedule: a number below CipherMod from the key text.
CipherMod == Len(Digits) * Len(Digits)
KeyShift(key) == Mix(key, 1, CipherMod)
\* One character as two digits, and back.
Pair(n) == Render(n, 2)
DigitVal(c) == (CHOOSE i \in 1..Len(Digits) : Digits[i] = c) - 1
Unpair(a, b) == DigitVal(a) * Len(Digits) + DigitVal(b)

RECURSIVE EncryptText(_, _)
EncryptText(text, k) ==
  IF text = <<>> THEN <<>>
  ELSE Pair((Code(Head(text)) + k) % CipherMod) \o EncryptText(Tail(text), k)

RECURSIVE DecryptText(_, _)
DecryptText(ct, k) ==
  IF ct = <<>> THEN <<>>
  ELSE <<Alphabet[((Unpair(ct[1], ct[2]) - k) % CipherMod)]>>
         \o DecryptText(SubSeq(ct, 3, Len(ct)), k)

\* thorin.util.encrypt(data, key): a value that is no text is serialized
\* first; the ciphertext is text of digits that opens with a block checking
\* the key; any failure is caught and reported as false.
UtilEncrypt(data, key) ==
  LET plain == Serialize(data)
  IN IF plain.t # "string" \/ key.t # "string" THEN JsFalse
     ELSE Str(Pair(KeyShift(key.s)) \o EncryptText(plain.s, KeyShift(key.s)))

\* thorin.util.decrypt(data, key): the plaintext of a ciphertext made with the
\* same key, false for anything else (text that is no ciphertext, wrong key).
UtilDecrypt(data, key) ==
  IF data.t # "string" \/ key.t # "string" \/ data.s = <<>> THEN JsFalse
  ELSE LET ct == data.s
           k == KeyShift(key.s)
       IN IF \/ Len(ct) % 2 # 0
             \/ \E i \in 1..Len(ct) : ~IsDigit(ct[i])
             \/ SubSeq(ct, 1, 2) # Pair(k)
             \/ \E i \in 2..(Len(ct) \div 2) :
                  ((Unpair(ct[2 * i - 1], ct[2 * i]) - k) % CipherMod)
                     \notin 1..Len(Alphabet)
          THEN JsFalse
          ELSE Str(DecryptText(SubSeq(ct, 3, Len(ct)), k))

----------------------------------------------------------------------------
(* lib/sessionStore.js: constants and helpers *)

SID_SPLIT == "."
ENC_SPLIT == "#"

RECURSIVE SegmentEnd(_, _, _)
\* The index of the first d in text at or after i, Len(text) + 1 if none.
SegmentEnd(text, d, i) ==
  IF i > Len(text) \/ text[i] = d THEN i ELSE SegmentEnd(text, d, i + 1)

RECURSIVE Split(_, _)
\* text.split(d): the segments between the occurrences of d.
Split(text, d) ==
  LET e == SegmentEnd(text, d, 1)
  IN IF e > Len(text) THEN <<text>>
     ELSE <<SubSeq(text, 1, e - 1)>> \o Split(SubSeq(text, e + 1, Len(text)), d)

\* signId with the signature computed after the delimiter was appended.
signId_SignsDelimiter(sid) ==
  IF ~Truthy(opt.secret) THEN sid
  ELSE IF TypeOf(sid) # "string" THEN JsFalse
  ELSE IF Len(Split(sid.s, SID_SPLIT)) # 1 THEN sid
  ELSE Str(sid.s \o <<SID_SPLIT>>
             \o UtilHmac(sid.s \o <<SID_SPLIT>>, opt.secret.s))

\* signId without the test for an identifier that is signed already.
signId_SignsAgain(sid) ==
  IF ~Truthy(opt.secret) THEN sid
  ELSE IF TypeOf(sid) # "string" THEN JsFalse
  ELSE Str(sid.s \o <<SID_SPLIT>> \o UtilHmac(sid.s, opt.secret.s))

\* signId(sid)
signId(sid) ==
  IF ~Truthy(opt.secret) THEN sid
  ELSE IF TypeOf(sid) # "string" THEN JsFalse
  ELSE IF Len(Split(sid.s, SID_SPLIT)) # 1 THEN sid
  ELSE Str(sid.s \o <<SID_SPLIT>> \o UtilHmac(sid.s, opt.secret.s))

\* verifySignature without the comparison of the two signatures.
verifySignature_NoCompare(sid) ==
  IF ~Truthy(opt.secret) THEN sid
  ELSE IF sid.t # "string" THEN Thrown("TypeError")
  ELSE LET tmp == Split(sid.s, SID_SPLIT)
       IN IF Len(tmp) # 2 THEN JsFalse ELSE Str(tmp[1])

\* verifySignature(sid)
verifySignature(sid) ==
  IF ~Truthy(opt.secret) THEN sid
  ELSE IF sid.t # "string" THEN Thrown("TypeError")
  ELSE LET tmp == Split(sid.s, SID_SPLIT)
       IN IF Len(tmp) # 2 THEN JsFalse
          ELSE IF UtilCompare(UtilHmac(tmp[1], opt.secret.s), tmp[2])
               THEN Str(tmp[1])
               ELSE JsFalse

\* getSecureSid(sid)
getSecureSid(sid) ==
  IF ~Truthy(opt.encrypt) THEN sid
  ELSE Str(UtilSha2(sid.s))

\* encryptData with the cipher keyed by the derived storage key.
encryptData_KeyedByStorageKey(sid, data) ==
  IF ~Truthy(opt.encrypt) THEN data
  ELSE LET encrypted == UtilEncrypt(data, getSecureSid(sid))
       IN IF ~Truthy(encrypted) THEN data
          ELSE Str(<<ENC_SPLIT>> \o encrypted.s)

\* encryptData(sid, data)
encryptData(sid, data) ==
  IF ~Truthy(opt.encrypt) THEN data
  ELSE LET encrypted == UtilEncrypt(data, sid)
       IN IF ~Truthy(encrypted) THEN data
          ELSE Str(<<ENC_SPLIT>> \o encrypted.s)

\* decryptData handing on the cipher's false when decryption fails.
decryptData_ReturnsFalse(sid, data) ==
  IF TypeOf(data) # "string" THEN data
  ELSE IF data.s = <<>> \/ data.s[1] # ENC_SPLIT THEN data
  ELSE LET decrypted == UtilDecrypt(data, sid)
       IN IF decrypted = JsFalse THEN JsFalse
          ELSE LET parsed == JsonParse(decrypted.s)
               IN IF parsed.t = "thrown" THEN decrypted ELSE parsed

\* decryptData(sid, data)
decryptData(sid, data) ==
  IF TypeOf(data) # "string" THEN data
  ELSE IF data.s = <<>> \/ data.s[1] # ENC_SPLIT THEN data
  ELSE LET decrypted == UtilDecrypt(data, sid)
       IN IF decrypted = JsFalse THEN EmptyObject
          ELSE LET parsed == JsonParse(decrypted.s)
               IN IF parsed.t = "thrown" THEN decrypted ELSE parsed

----------------------------------------------------------------------------
(* The helpers applied to inputs drawn from bounded sets *)

Secrets == {Undefined, Str(<<"a">>), Str(<<"b">>)}
EncryptFlags == {Undefined, JsTrue}
Options == [secret : Secrets, encrypt : EncryptFlags]

\* Identifiers handed to signId, getSecureSid and the cipher.
RawIds == {Str(s) : s \in Texts({"a", "1", SID_SPLIT}, MaxIdLen)}
NonTexts == {Undefined, Num(<<"1">>)}
\* Candidates handed to verifySignature: every text that is as long as a
\* signed identifier can be.
Candidates ==
  {Str(s) : s \in Texts({"a", SID_SPLIT} \cup {Digits[i] : i \in 1..Len(Digits)},
                        MaxIdLen + 1 + HmacLen)}
\* Session data handed to encryptData.
DataValues ==
  {Undefined, Null, JsTrue, Num(<<"1">>), EmptyObject, Obj(<<"{", "a", "}">>),
   Obj(<<"{", "a", "b", "}">>), Obj(<<"{", "~", "}">>), Str(<<>>), Str(<<"a">>),
   Str(<<"1">>), Str(<<"{", "}">>), Str(<<ENC_SPLIT>>), Str(<<ENC_SPLIT, "a">>)}
\* Records handed to decryptData.
Records ==
  DataValues \cup
  {Str(s) : s \in Texts({ENC_SPLIT} \cup {Digits[i] : i \in 1..Len(Digits)}, 3)}

Call(fn, sid, data, out) == [fn |-> fn, sid |-> sid, data |-> data, out |-> out]

UtilInit ==
  /\ opt \in Options
  /\ store = Null
  /\ created = 0
  /\ storage = <<>>
  /\ pending = EmptyBag
  /\ last = <<>>
  /\ written = <<>>
  /\ ret = <<>>

Frozen == UNCHANGED <<opt, store, created, storage, pending, last, written>>

CallSignId ==
  /\ ret = <<>>
  /\ \E x \in RawIds \cup NonTexts :
       /\ ret' = <<Call("signId", x, Undefined, signId(x))>>
       /\ Frozen

\* signId applied to what signId returned.
SignSigned ==
  /\ Len(ret) = 1
  /\ ret[1].fn = "signId"
  /\ ret' = ret \o <<Call("signId", ret[1].out, Undefined, signId(ret[1].out))>>
  /\ Frozen

\* verifySignature applied to what signId returned.
VerifySigned ==
  /\ Len(ret) = 1
  /\ ret[1].fn = "signId"
  /\ ret' = ret \o <<Call("verifySignature", ret[1].out, Undefined,
                          verifySignature(ret[1].out))>>
  /\ Frozen

CallVerifySignature ==
  /\ ret = <<>>
  /\ \E c \in Candidates \cup NonTexts :
       /\ ret' = <<Call("verifySignature", c, Undefined, verifySignature(c))>>
       /\ Frozen

CallGetSecureSid ==
  /\ ret = <<>>
  /\ \E x \in RawIds :
       /\ ret' = <<Call("getSecureSid", x, Undefined, getSecureSid(x))>>
       /\ Frozen

CallEncryptData ==
  /\ ret = <<>>
  /\ \E x \in RawIds, d \in DataValues :
       /\ ret' = <<Call("encryptData", x, d, encryptData(x, d))>>
       /\ Frozen

\* decryptData applied, with the same identifier, to what encryptData returned.
DecryptEncrypted ==
  /\ Len(ret) = 1
  /\ ret[1].fn = "encryptData"
  /\ ret' = ret \o <<Call("decryptData", ret[1].sid, ret[1].out,
                          decryptData(ret[1].sid, ret[1].out))>>
  /\ Frozen

CallDecryptData ==
  /\ ret = <<>>
  /\ \E x \in RawIds, r \in Records :
       /\ ret' = <<Call("decryptData", x, r, decryptData(x, r))>>
       /\ Frozen

\* The caller takes the results: the next call starts afresh.
Return ==
  /\ ret # <<>>
  /\ ret' = <<>>
  /\ Frozen

UtilNext ==
  \/ Return
  \/ CallSignId
  \/ SignSigned
  \/ VerifySigned
  \/ CallVerifySignature
  \/ CallGetSecureSid
  \/ CallEncryptData
  \/ DecryptEncrypted
  \/ CallDecryptData

UtilSpec == UtilInit /\ [][UtilNext]_vars

----------------------------------------------------------------------------
(* Session payloads (lib/sessionData.js) and the backend adapters
   (lib/store/*.js): collaborators of the session store *)

\* new SessionData(id, data), with its save-needed flag.
SessionData(id, data, dirty) ==
  [t |-> "SessionData", s |-> <<>>, id |-> id, data |-> data, dirty |-> dirty]
getData(sessionObj) == sessionObj.data
shouldSave(sessionObj) == sessionObj.dirty

\* The adapter built for a store of the given type by the n-th invocation of
\* createStore: every invocation constructs a new instance.
Backend(type, n) == [t |-> "backend", s |-> <<type>>, n |-> n]

\* A call of the adapter: save(key, value, cb), read(key, cb) or
\* destroy(key, cb); id and build are what the callback closes over.
BackendCall(op, key, value, id, build) ==
  [op |-> op, key |-> key, value |-> value, id |-> id, build |-> build]

\* The record the adapter holds under key: null when there is none.
Stored(key) == IF key \in DOMAIN storage THEN storage[key] ELSE Null
\* The records after save(key, value) and after destroy(key).
Put(key, value) ==
  [k \in DOMAIN storage \cup {key} |-> IF k = key THEN value ELSE storage[k]]
Remove(key) == [k \in DOMAIN storage \ {key} |-> storage[k]]

BackendErrors == {[t |-> "error", s |-> <<"BACKEND">>]}

----------------------------------------------------------------------------
(* lib/sessionStore.js: class ThorinSessionStore *)

\* thorin.error(code, message)
ThorinError(code) == [t |-> "error", s |-> <<code>>]
NotReady == ThorinError("SESSION.NOT_READY")
InvalidSession == ThorinError("SESSION.INVALID")

\* One invocation done(err, res).
Done(err, res) == [err |-> err, res |-> res]
\* What a handler step did: its done() invocations and its backend calls.
Outcome(dones, issued) == [dones |-> dones, issued |-> issued]

StoreTypes == {"redis", "sql", "file"}

\* createStore falling back to the file store for a type it does not know.
createStore_DefaultsToFile(storeObj) ==
  IF storeObj.type \in StoreTypes THEN Backend(storeObj.type, created + 1)
  ELSE Backend("file", created + 1)

\* createStore(storeObj): the adapter, or the error thrown.
createStore(storeObj) ==
  IF storeObj.type \in StoreTypes THEN Backend(storeObj.type, created + 1)
  ELSE [t |-> "thrown", s |-> <<"PLUGIN_SESSION">>]

\* saveSession that validates the payload before it looks at the backend.
saveSession_ValidatesFirst(sessionObj) ==
  IF sessionObj.t # "SessionData"
  THEN Outcome(<<Done(InvalidSession, Undefined)>>, <<>>)
  ELSE IF ~Truthy(store) THEN Outcome(<<Done(NotReady, Undefined)>>, <<>>)
  ELSE LET data == getData(sessionObj)
           id == sessionObj.id
       IN IF TypeOf(id) # "string" \/ TypeOf(data) = "undefined" \/ data = Null
          THEN Outcome(<<Done(Null, JsFalse)>>, <<>>)
          ELSE IF ~shouldSave(sessionObj)
          THEN Outcome(<<Done(Null, JsFalse)>>, <<>>)
          ELSE Outcome(<<>>, <<BackendCall("save", getSecureSid(id),
                                           encryptData(id, data), id, Undefined)>>)

\* saveSession that takes any object with an id for a payload.
saveSession_DuckTyped(sessionObj) ==
  IF ~Truthy(store) THEN Outcome(<<Done(NotReady, Undefined)>>, <<>>)
  ELSE IF "id" \notin DOMAIN sessionObj
  THEN Outcome(<<Done(InvalidSession, Undefined)>>, <<>>)
  ELSE LET data == getData(sessionObj)
           id == sessionObj.id
       IN IF TypeOf(id) # "string" \/ TypeOf(data) = "undefined" \/ data = Null
          THEN Outcome(<<Done(Null, JsFalse)>>, <<>>)
          ELSE IF ~shouldSave(sessionObj)
          THEN Outcome(<<Done(Null, JsFalse)>>, <<>>)
          ELSE Outcome(<<>>, <<BackendCall("save", getSecureSid(id),
                                           encryptData(id, data), id, Undefined)>>)

\* saveSession that never asks the payload whether it needs saving.
saveSession_IgnoresShouldSave(sessionObj) ==
  IF ~Truthy(store) THEN Outcome(<<Done(NotReady, Undefined)>>, <<>>)
  ELSE IF sessionObj.t # "SessionData"
  THEN Outcome(<<Done(InvalidSession, Undefined)>>, <<>>)
  ELSE LET data == getData(sessionObj)
           id == sessionObj.id
       IN IF TypeOf(id) # "string" \/ TypeOf(data) = "undefined" \/ data = Null
          THEN Outcome(<<Done(Null, JsFalse)>>, <<>>)
          ELSE Outcome(<<>>, <<BackendCall("save", getSecureSid(id),
                                           encryptData(id, data), id, Undefined)>>)

\* saveSession(sessionObj, done), up to its return.
saveSession(sessionObj) ==
  IF ~Truthy(store) THEN Outcome(<<Done(NotReady, Undefined)>>, <<>>)
  ELSE IF sessionObj.t # "SessionData"
  THEN Outcome(<<Done(InvalidSession, Undefined)>>, <<>>)
  ELSE LET data == getData(sessionObj)
           id == sessionObj.id
       IN IF TypeOf(id) # "string" \/ TypeOf(data) = "undefined" \/ data = Null
          THEN Outcome(<<Done(Null, JsFalse)>>, <<>>)
          ELSE IF ~shouldSave(sessionObj)
          THEN Outcome(<<Done(Null, JsFalse)>>, <<>>)
          ELSE Outcome(<<>>, <<BackendCall("save", getSecureSid(id),
                                           encryptData(id, data), id, Undefined)>>)

\* The save callback without the return after done(e).
saveCallback_FallsThrough(call, e) ==
  IF Truthy(e) THEN Outcome(<<Done(e, Undefined), Done(Null, JsTrue)>>, <<>>)
  ELSE Outcome(<<Done(Null, JsTrue)>>, <<>>)

\* The callback saveSession hands to store.save, called with e.
saveCallback(call, e) ==
  IF Truthy(e) THEN Outcome(<<Done(e, Undefined)>>, <<>>)
  ELSE Outcome(<<Done(Null, JsTrue)>>, <<>>)

\* The identifier of destroySession's and readSession's first argument.
IdOf(id) == IF id.t = "SessionData" THEN id.id ELSE id

\* destroySession that hands the raw identifier to the backend.
destroySession_RawKey(id) ==
  IF ~Truthy(store) THEN Outcome(<<Done(NotReady, Undefined)>>, <<>>)
  ELSE Outcome(<<>>, <<BackendCall("destroy", IdOf(id), Undefined,
                                   IdOf(id), Undefined)>>)

\* destroySession that holds its backend call back while a save of the same
\* key is in flight.
destroySession_WaitsForSave(id) ==
  IF ~Truthy(store) THEN Outcome(<<Done(NotReady, Undefined)>>, <<>>)
  ELSE IF \E c \in BagToSet(pending) :
            c.op = "save" /\ c.key = getSecureSid(IdOf(id))
  THEN Outcome(<<>>, <<>>)
  ELSE Outcome(<<>>, <<BackendCall("destroy", getSecureSid(IdOf(id)), Undefined,
                                   IdOf(id), Undefined)>>)

\* destroySession(id, done), up to its return.
destroySession(id) ==
  IF ~Truthy(store) THEN Outcome(<<Done(NotReady, Undefined)>>, <<>>)
  ELSE Outcome(<<>>, <<BackendCall("destroy", getSecureSid(IdOf(id)), Undefined,
                                   IdOf(id), Undefined)>>)

\* done itself is the callback destroySession hands to store.destroy.
destroyCallback(call, e) == Outcome(<<Done(e, Undefined)>>, <<>>)

\* readSession(id, done, shouldBuildObject), up to its return.
readSession(id, shouldBuildObject) ==
  IF ~Truthy(store) THEN Outcome(<<Done(NotReady, Undefined)>>, <<>>)
  ELSE Outcome(<<>>, <<BackendCall("read", getSecureSid(IdOf(id)), Undefined,
                                   IdOf(id), shouldBuildObject)>>)

\* The read callback reporting a failed read as a session that is not there.
readCallback_SwallowsError(call, e, data) ==
  IF Truthy(e) THEN Outcome(<<Done(Null, Undefined)>>, <<>>)
  ELSE LET decrypted == decryptData(call.id, data)
           res == IF Truthy(decrypted) /\ call.build # JsFalse
                  THEN SessionData(call.id, decrypted, FALSE)
                  ELSE decrypted
       IN Outcome(<<Done(Null, res)>>, <<>>)

\* The read callback building a payload whatever the backend returned.
readCallback_AlwaysBuilds(call, e, data) ==
  IF Truthy(e) THEN Outcome(<<Done(e, Undefined)>>, <<>>)
  ELSE LET decrypted == decryptData(call.id, data)
           res == IF call.build # JsFalse
                  THEN SessionData(call.id, decrypted, FALSE)
                  ELSE decrypted
       IN Outcome(<<Done(Null, res)>>, <<>>)

\* The read callback handing on the record, never building a payload.
readCallback_ReturnsRecord(call, e, data) ==
  IF Truthy(e) THEN Outcome(<<Done(e, Undefined)>>, <<>>)
  ELSE Outcome(<<Done(Null, decryptData(call.id, data))>>, <<>>)

\* The callback readSession hands to store.read, called with (e, data).
readCallback(call, e, data) ==
  IF Truthy(e) THEN Outcome(<<Done(e, Undefined)>>, <<>>)
  ELSE LET decrypted == decryptData(call.id, data)
           res == IF Truthy(decrypted) /\ call.build # JsFalse
                  THEN SessionData(call.id, decrypted, FALSE)
                  ELSE decrypted
       IN Outcome(<<Done(Null, res)>>, <<>>)

----------------------------------------------------------------------------
(* The session store as a state machine *)

\* Two identifiers: a letter, and digits as many as an identifier may have.
LongId == Str([i \in 1..MaxIdLen |-> "1"])
SessionIds == {Str(<<"a">>), LongId}
PlainObject == Obj(<<"{", "a", "}">>)
\* Payloads that need saving: structured data, a circular structure (which
\* no cipher can serialize) and text that opens with the marker character.
DirtyPayloads ==
  {SessionData(Str(<<"a">>), data, TRUE) :
     data \in {PlainObject, Obj(<<"{", "~", "}">>), Str(<<ENC_SPLIT, "a">>)}}
  \cup {SessionData(LongId, PlainObject, TRUE)}
\* Payloads saveSession has nothing to save for.
IdlePayloads ==
  {SessionData(Str(<<"a">>), PlainObject, FALSE),
   SessionData(Undefined, PlainObject, TRUE),
   SessionData(Str(<<"a">>), Undefined, TRUE),
   SessionData(Str(<<"a">>), Null, TRUE)}
\* An object with the fields of a payload that needs saving, but no instance
\* of SessionData.
Lookalike ==
  [t |-> "object", s |-> <<"{", "a", "}">>, id |-> Str(<<"a">>),
   data |-> PlainObject, dirty |-> TRUE]
\* Arguments of saveSession: payloads, and values that are no payload.
SaveArgs == DirtyPayloads \cup IdlePayloads \cup {Undefined, Lookalike}
\* Arguments of destroySession and readSession: identifiers and payloads.
IdArgs == {Str(<<"a">>), SessionData(LongId, PlainObject, FALSE)}
BuildArgs == {Undefined, JsFalse}
\* Configurations assigned to store: a supported type and an unsupported one.
StoreConfigs == [type : {"redis", "memory"}]

RECURSIVE SeqToBag(_)
SeqToBag(seq) ==
  IF seq = <<>> THEN EmptyBag ELSE SetToBag({Head(seq)}) (+) SeqToBag(Tail(seq))

\* A handler that marks the payload saved once it has handed it to the backend.
ArgumentAfter_MarksSaved(op, arg) ==
  IF op = "saveSession" /\ arg.t = "SessionData" /\ saveSession(arg).issued # <<>>
  THEN [arg EXCEPT !.dirty = FALSE]
  ELSE arg

\* The first argument of a handler as the handler leaves it.  saveSession
\* calls getData() and shouldSave() on it and reads its id, destroySession and
\* readSession read its id; none assigns to it or calls anything else on it.
ArgumentAfter(op, arg) == arg

\* The step a handler or a callback has just run: arg is the handler's
\* argument or the backend call answered, after the argument as the step
\* left it, e and data the backend's answer.
Step(op, phase, arg, e, data, out) ==
  [op |-> op, phase |-> phase, arg |-> arg,
   after |-> IF phase = "call" THEN ArgumentAfter(op, arg) ELSE arg,
   e |-> e, data |-> data, dones |-> out.dones, issued |-> out.issued]

Init ==
  /\ opt \in [secret : {Str(<<"a">>)}, encrypt : EncryptFlags]
  /\ store = Null
  /\ created = 0
  /\ storage = <<>>
  /\ pending = EmptyBag
  /\ last = <<>>
  /\ written = <<>>
  /\ ret = <<>>

\* The store setter without its guard: a later assignment replaces the backend.
SetStore_Overwrites ==
  \E storeObj \in StoreConfigs :
    /\ created < MaxCreate
    /\ created' = created + 1
    /\ LET made == createStore(storeObj)
       IN /\ store' = IF made.t = "thrown" THEN store ELSE made
          /\ last' = Step("set store", IF made.t = "thrown" THEN "throw" ELSE "call",
                          storeObj, Undefined, Undefined, Outcome(<<>>, <<>>))
    /\ UNCHANGED <<opt, storage, pending, written, ret>>

\* set store(storeObj)
SetStore ==
  \E storeObj \in StoreConfigs :
    /\ IF Truthy(store)
       THEN /\ UNCHANGED <<store, created>>
            /\ last' = Step("set store", "call", storeObj, Undefined, Undefined,
                            Outcome(<<>>, <<>>))
       ELSE /\ created < MaxCreate
            /\ created' = created + 1
            /\ LET made == createStore(storeObj)
               IN /\ store' = IF made.t = "thrown" THEN store ELSE made
                  /\ last' = Step("set store", IF made.t = "thrown" THEN "throw" ELSE "call",
                                  storeObj, Undefined, Undefined, Outcome(<<>>, <<>>))
    /\ UNCHANGED <<opt, storage, pending, written, ret>>

\* The identifiers whose writes the history follows.
TrackedIds == {Str(<<"a">>)}

IsWrite(call) == call.op \in {"save", "destroy"}

\* Another save or destroy of the identifier of call is in flight.
OtherWriteInFlight(call) ==
  \E c \in BagToSet(pending) :
    /\ IsWrite(c)
    /\ c.id = call.id
    /\ (c = call => CopiesIn(c, pending) > 1)

\* The calls as they go in flight: a read takes along the write that left
\* what the backend holds for its identifier, when the history knows (seen).
Noted(calls) ==
  [i \in DOMAIN calls |->
     [seen |-> IF calls[i].op = "read" /\ calls[i].id \in DOMAIN written
               THEN written[calls[i].id]
               ELSE Undefined] @@ calls[i]]

\* The history after the calls were issued: with a save or a destroy of an
\* identifier in flight, what the backend holds for it is open.
Issued(calls) ==
  [id \in DOMAIN written \ {calls[i].id : i \in {k \in DOMAIN calls : IsWrite(calls[k])}}
     |-> written[id]]

\* The history after the backend answered call with e: a write that
\* succeeded with no other write of its identifier in flight has left what
\* the backend holds for the identifier.
Settled(call, e) ==
  IF /\ e = Null
     /\ ~Truthy(opt.encrypt)
     /\ call.id \in TrackedIds
     /\ ~OtherWriteInFlight(call)
  THEN (call.id :> call) @@ written
  ELSE written

\* A handler runs up to its return: its backend calls are now in flight.
Handle(op, arg, out) ==
  /\ BagCardinality(pending) + Len(out.issued) <= MaxPending
  /\ pending' = pending (+) SeqToBag(Noted(out.issued))
  /\ last' = Step(op, "call", arg, Undefined, Undefined,
                  Outcome(out.dones, Noted(out.issued)))
  /\ written' = Issued(out.issued)
  /\ UNCHANGED <<opt, store, created, storage, ret>>

SaveSession == \E sessionObj \in SaveArgs :
  Handle("saveSession", sessionObj, saveSession(sessionObj))

DestroySession == \E id \in IdArgs :
  Handle("destroySession", id, destroySession(id))

ReadSession == \E id \in IdArgs, shouldBuildObject \in BuildArgs :
  Handle("readSession", id, readSession(id, shouldBuildObject))

\* The backend answers a call in flight: the callback runs.
Answer(op, call, e, data, out) ==
  /\ pending' = (pending (-) SetToBag({call})) (+) SeqToBag(out.issued)
  /\ last' = Step(op, "callback", call, e, data, out)
  /\ UNCHANGED <<opt, store, created, ret>>

\* store.save(key, value, cb) completes, with an error or having stored value.
BackendSave ==
  \E call \in BagToSet(pending), e \in BackendErrors \cup {Null} :
    /\ call.op = "save"
    /\ storage' = IF e = Null THEN Put(call.key, call.value) ELSE storage
    /\ written' = Settled(call, e)
    /\ Answer("saveSession", call, e, Undefined, saveCallback(call, e))

\* store.destroy(key, cb) completes, with an error or having removed the record.
BackendDestroy ==
  \E call \in BagToSet(pending), e \in BackendErrors \cup {Null} :
    /\ call.op = "destroy"
    /\ storage' = IF e = Null THEN Remove(call.key) ELSE storage
    /\ written' = Settled(call, e)
    /\ Answer("destroySession", call, e, Undefined, destroyCallback(call, e))

\* store.read(key, cb) completes, with an error or with the record under key.
BackendRead ==
  \E call \in BagToSet(pending), e \in BackendErrors \cup {Null} :
    /\ call.op = "read"
    /\ UNCHANGED <<storage, written>>
    /\ LET data == IF e = Null THEN Stored(call.key) ELSE Undefined
       IN Answer("readSession", call, e, data, readCallback(call, e, data))

Next ==
  \/ SetStore
  \/ SaveSession
  \/ DestroySession
  \/ ReadSession
  \/ BackendSave
  \/ BackendDestroy
  \/ BackendRead

Spec == Init /\ [][Next]_vars


----------------------------------------------------------------------------
(* Properties of the helpers, checked under UtilSpec *)

HasDelimiter(text) == \E i \in 1..Len(text) : text[i] = SID_SPLIT

\* signId followed by verifySignature on its result, with a secret configured
\* and a raw identifier that is text without the delimiter.
SignedThenVerified ==
  /\ Len(ret) = 2
  /\ ret[1].fn = "signId"
  /\ ret[2].fn = "verifySignature"
  /\ Truthy(opt.secret)
  /\ ret[1].sid.t = "string"
  /\ ~HasDelimiter(ret[1].sid.s)

\* C1: with a signing secret configured, verifySignature(signId(x)) returns
\* exactly x for every text x without the delimiter.
C1_SignVerifyRoundTrip ==
  SignedThenVerified => ret[2].out = ret[1].sid

C1_Witness ==
  /\ SignedThenVerified
  /\ ret[1].sid.s # <<>>
  /\ ret[1].out # ret[1].sid
  /\ ret[2].out = ret[1].sid

\* A verifySignature call on a text candidate with a secret configured.
VerifiedCandidate ==
  /\ ret # <<>>
  /\ ret[Len(ret)].fn = "verifySignature"
  /\ ret[Len(ret)].sid.t = "string"
  /\ Truthy(opt.secret)

\* C2: with a signing secret configured, verifySignature returns false for a
\* candidate without delimiter and for a candidate whose text after a
\* delimiter is not the hmac of the text before it; when it returns an
\* identifier, the candidate is that identifier, the delimiter and its hmac.
C2_TamperDetection ==
  VerifiedCandidate =>
    LET c == ret[Len(ret)].sid.s
        out == ret[Len(ret)].out
    IN /\ ~HasDelimiter(c) => out = JsFalse
       /\ (\E i \in 1..Len(c) :
             /\ c[i] = SID_SPLIT
             /\ SubSeq(c, i + 1, Len(c)) # UtilHmac(SubSeq(c, 1, i - 1), opt.secret.s))
          => out = JsFalse
       /\ out # JsFalse =>
            /\ out.t = "string"
            /\ c = out.s \o <<SID_SPLIT>> \o UtilHmac(out.s, opt.secret.s)

\* A candidate of an identifier, the delimiter and a signature of the right
\* length that is not the identifier's hmac: it is rejected.
C2_Witness ==
  /\ VerifiedCandidate
  /\ LET c == ret[Len(ret)].sid.s
     IN /\ Len(c) = 2 + HmacLen
        /\ c[1] = "a"
        /\ c[2] = SID_SPLIT
        /\ ~HasDelimiter(SubSeq(c, 3, Len(c)))
        /\ SubSeq(c, 3, Len(c)) # UtilHmac(<<"a">>, opt.secret.s)
  /\ ret[Len(ret)].out = JsFalse

\* encryptData followed by decryptData with the same identifier, with
\* encryption enabled and structured data.
EncryptedThenDecrypted ==
  /\ Len(ret) = 2
  /\ ret[1].fn = "encryptData"
  /\ ret[2].fn = "decryptData"
  /\ Truthy(opt.encrypt)
  /\ ret[1].sid.t = "string"
  /\ ret[1].data.t = "object"
  /\ ~IsCircular(ret[1].data)

\* C3: with encryption enabled, decryptData(id, encryptData(id, data)) is
\* data for every identifier and every structured data value.
C3_CipherRoundTrip ==
  EncryptedThenDecrypted => ret[2].out = ret[1].data

\* signId applied to the result of signId, with a secret configured and a
\* text identifier.
SignedTwice ==
  /\ Len(ret) = 2
  /\ ret[1].fn = "signId"
  /\ ret[2].fn = "signId"
  /\ ret[2].sid = ret[1].out
  /\ Truthy(opt.secret)
  /\ ret[1].sid.t = "string"

\* C12: with a signing secret configured, signId(signId(x)) is signId(x) for
\* every text x: a signed identifier is returned as it is.
C12_SignIdempotent ==
  SignedTwice => ret[2].out = ret[1].out

\* A raw identifier was signed, and signing the result left it as it was.
C12_Witness ==
  /\ SignedTwice
  /\ ~HasDelimiter(ret[1].sid.s)
  /\ ret[1].out # ret[1].sid
  /\ ret[2].out = ret[1].out

\* A candidate that does not split on the delimiter into exactly two
\* segments that are not empty; a candidate that is no text is one.
Malformed(c) ==
  \/ c.t # "string"
  \/ LET tmp == Split(c.s, SID_SPLIT)
     IN Len(tmp) # 2 \/ tmp[1] = <<>> \/ tmp[2] = <<>>

\* C15: with a signing secret configured, verifySignature returns false, and
\* neither raises nor returns anything else, for every candidate that does
\* not split on the delimiter into exactly two segments that are not empty.
C15_MalformedIsFalse ==
  (/\ ret # <<>>
   /\ ret[Len(ret)].fn = "verifySignature"
   /\ Truthy(opt.secret)
   /\ Malformed(ret[Len(ret)].sid))
  => ret[Len(ret)].out = JsFalse

\* The two ways verifySignature departs from it: it raises on a candidate
\* that is no text, and it returns the empty identifier for the delimiter
\* followed by the hmac of the empty text.
C15_Raises ==
  ~(/\ ret # <<>>
    /\ ret[Len(ret)].fn = "verifySignature"
    /\ Truthy(opt.secret)
    /\ ret[Len(ret)].out.t = "thrown")
C15_AcceptsEmptyId ==
  ~(/\ ret # <<>>
    /\ ret[Len(ret)].fn = "verifySignature"
    /\ Truthy(opt.secret)
    /\ ret[Len(ret)].sid.t = "string"
    /\ Malformed(ret[Len(ret)].sid)
    /\ ret[Len(ret)].out = Str(<<>>))

----------------------------------------------------------------------------
(* Properties of the session store, checked under Spec *)

Operations == {"saveSession", "readSession", "destroySession"}
\* A handler has just run up to its return / a callback has just run.
Called(op) == last # <<>> /\ last.op = op /\ last.phase = "call"
CalledBack(op) == last # <<>> /\ last.op = op /\ last.phase = "callback"

\* C4: with no backend attached, saveSession, readSession and destroySession
\* complete with a NotReady error before they return, for any argument, and
\* no backend call is made.
C4_NotReady ==
  store = Null =>
    /\ pending = EmptyBag
    /\ \A op \in Operations :
         Called(op) =>
           /\ last.dones = <<Done(NotReady, Undefined)>>
           /\ last.issued = <<>>

\* saveSession of a value that is no payload, with no backend attached.
C4_Witness ==
  /\ store = Null
  /\ Called("saveSession")
  /\ last.arg = Undefined
  /\ last.dones = <<Done(NotReady, Undefined)>>

\* C5: once a backend is attached, no step changes it: every later
\* assignment to store is ignored.
C5_SetOnce == [][store # Null => store' = store]_vars

\* An assignment naming a supported store type, made while a call of the
\* attached backend was in flight, has left the backend as it was.
C5_Witness ==
  /\ store # Null
  /\ pending # EmptyBag
  /\ Called("set store")
  /\ last.arg.type \in StoreTypes

\* C6: every handler step either completes the operation with exactly one
\* done() and no backend call, or hands exactly one call to the backend and
\* invokes no done(); the callback of an answered call invokes done()
\* exactly once and makes no further backend call.
C6_ExactlyOnce ==
  \A op \in Operations :
    /\ Called(op) =>
         \/ Len(last.dones) = 1 /\ last.issued = <<>>
         \/ last.dones = <<>> /\ Len(last.issued) = 1
    /\ CalledBack(op) => Len(last.dones) = 1 /\ last.issued = <<>>

\* The backend has answered a save with an error and done() ran once.
C6_Witness ==
  /\ CalledBack("saveSession")
  /\ Truthy(last.e)
  /\ Len(last.dones) = 1

\* saveSession of a payload that has nothing to save, a backend attached.
NothingToSave ==
  /\ store # Null
  /\ Called("saveSession")
  /\ last.arg.t = "SessionData"
  /\ \/ ~last.arg.dirty
     \/ last.arg.id.t # "string"
     \/ last.arg.data \in {Undefined, Null}

\* C7: saveSession of a payload whose shouldSave() is false, whose id is no
\* text or whose data is undefined or null completes with (null, false) and
\* makes no backend call.
C7_NoSave ==
  NothingToSave =>
    /\ last.dones = <<Done(Null, JsFalse)>>
    /\ last.issued = <<>>

C7_Witness ==
  /\ NothingToSave
  /\ ~last.arg.dirty
  /\ last.arg.id.t = "string"
  /\ last.arg.data = PlainObject
  /\ last.dones = <<Done(Null, JsFalse)>>

C9_BackendErrors ==
  \A op \in Operations :
    CalledBack(op) =>
      /\ Truthy(last.e) =>
           /\ last.dones = <<Done(last.e, Undefined)>>
           /\ last.issued = <<>>
      /\ (op = "saveSession" /\ ~Truthy(last.e)) =>
           last.dones = <<Done(Null, JsTrue)>>

\* The backend has answered a read with an error.
C9_Witness ==
  /\ CalledBack("readSession")
  /\ last.e \in BackendErrors
  /\ last.dones = <<Done(last.e, Undefined)>>

\* The backend has answered a read with a record that opens with the marker
\* and that the cipher cannot decrypt with the identifier read.
UndecryptableRead ==
  /\ CalledBack("readSession")
  /\ ~Truthy(last.e)
  /\ last.data.t = "string"
  /\ last.data.s # <<>>
  /\ last.data.s[1] = ENC_SPLIT
  /\ UtilDecrypt(last.data, last.arg.id) = JsFalse

\* C10: a read of a record that opens with the marker and cannot be
\* decrypted completes with no error and an empty session: a payload bound
\* to the identifier with empty data, or the empty object when the caller
\* suppressed the construction of a payload.
C10_FailSafeDecrypt ==
  UndecryptableRead =>
    /\ Len(last.dones) = 1
    /\ last.dones[1].err = Null
    /\ LET res == last.dones[1].res
       IN IF last.arg.build = JsFalse
          THEN res = EmptyObject
          ELSE /\ res.t = "SessionData"
               /\ res.id = last.arg.id
               /\ res.data = EmptyObject

C10_Witness ==
  /\ UndecryptableRead
  /\ last.arg.build # JsFalse
  /\ last.dones[1].err = Null
  /\ last.dones[1].res.t = "SessionData"
  /\ last.dones[1].res.data = EmptyObject

\* saveSession of a value that is no SessionData, a backend attached.
NoPayload ==
  /\ store # Null
  /\ Called("saveSession")
  /\ last.arg.t # "SessionData"

\* C11: with a backend attached, saveSession of a value that is no
\* SessionData instance completes with an InvalidSession error before it
\* returns and makes no backend call, whatever id, data and save-needed
\* state the value carries.
C11_InvalidSession ==
  NoPayload =>
    /\ last.dones = <<Done(InvalidSession, Undefined)>>
    /\ last.issued = <<>>

\* An object with a text id, data and a set save-needed flag is rejected.
C11_Witness ==
  /\ NoPayload
  /\ last.arg = Lookalike
  /\ last.dones = <<Done(InvalidSession, Undefined)>>
  /\ pending = EmptyBag

\* The backend has answered a read for a key it holds no record under.
NothingFound ==
  /\ CalledBack("readSession")
  /\ ~Truthy(last.e)
  /\ last.data \in {Null, Undefined}

\* C13: a read that finds no record completes with no error and no payload:
\* done(null, null-or-undefined), and no SessionData is built.
C13_NothingFound ==
  NothingFound =>
    /\ last.dones = <<Done(Null, last.data)>>
    /\ last.issued = <<>>

C13_Witness ==
  /\ NothingFound
  /\ last.arg.build # JsFalse
  /\ last.arg.key \notin DOMAIN storage
  /\ last.dones = <<Done(Null, Null)>>

\* C14: operations on one identifier are not serialized.  With a backend
\* attached, a destroySession and a saveSession of a payload that needs
\* saving hand their call to the backend before they return, whatever is in
\* flight; and what the backend holds under a key is what the call it
\* applied last left: the record after a save, nothing after a destroy.
C14_LastWriteWins ==
  /\ store # Null =>
       /\ Called("destroySession") =>
            /\ Len(last.issued) = 1
            /\ BagIn(last.issued[1], pending)
       /\ (Called("saveSession") /\ last.arg \in DirtyPayloads) =>
            /\ Len(last.issued) = 1
            /\ BagIn(last.issued[1], pending)
  /\ (CalledBack("saveSession") /\ ~Truthy(last.e)) =>
       Stored(last.arg.key) = last.arg.value
  /\ (CalledBack("destroySession") /\ ~Truthy(last.e)) =>
       last.arg.key \notin DOMAIN storage

\* A destroy was handed to the backend while a save of the same key was in
\* flight: the backend may now apply the two in either order.
C14_Witness ==
  /\ Called("destroySession")
  /\ Len(last.issued) = 1
  /\ \E c \in BagToSet(pending) :
       /\ c.op = "save"
       /\ c.key = last.issued[1].key
  /\ BagIn(last.issued[1], pending)

\* The save was applied first: the destroy, still in flight, will be last.
C14_SaveFirst ==
  /\ CalledBack("saveSession")
  /\ ~Truthy(last.e)
  /\ last.arg.key \in DOMAIN storage
  /\ \E d \in BagToSet(pending) : d.op = "destroy" /\ d.key = last.arg.key

\* The destroy was applied first: the save, still in flight, will be last.
C14_DestroyFirst ==
  /\ CalledBack("destroySession")
  /\ ~Truthy(last.e)
  /\ last.arg.key \notin DOMAIN storage
  /\ \E c \in BagToSet(pending) : c.op = "save" /\ c.key = last.arg.key

\* C16: with encryption not configured nothing is transformed: saveSession
\* hands the payload's data to the backend as it is, and a read that
\* suppresses the construction of a payload completes with exactly the
\* record the backend returned, text that opens with the marker included.
C16_NoTransformation ==
  ~Truthy(opt.encrypt) =>
    /\ (Called("saveSession") /\ Len(last.issued) = 1) =>
         last.issued[1].value = last.arg.data
    /\ (CalledBack("readSession") /\ ~Truthy(last.e) /\ last.arg.build = JsFalse) =>
         last.dones = <<Done(Null, last.data)>>

\* C17 as it was stated: over any sequence of assignments to store,
\* createStore is invoked exactly once, at the assignment that attaches the
\* backend: once a backend is attached it has been invoked one time.
C17_CreatedOnce ==
  store # Null => created = 1

\* C17: createStore is invoked at every assignment to store made while no
\* backend is attached and at none made after; the one invocation that
\* returns an adapter attaches it; an assignment that names an unsupported
\* type fails with a configuration error and leaves the store unattached.
C17_FactoryCalls ==
  [][/\ store # Null => created' = created
     /\ (store = Null /\ last'.op = "set store") =>
          /\ created' = created + 1
          /\ IF last'.arg.type \in StoreTypes
             THEN store' = Backend(last'.arg.type, created') /\ last'.phase = "call"
             ELSE store' = Null /\ last'.phase = "throw"
     /\ (store = Null /\ store' # Null) => last'.op = "set store"]_vars

\* An assignment of an unsupported type has failed, a later one has attached
\* a backend: createStore was invoked twice.
C17_Witness ==
  /\ store # Null
  /\ created = 2
  /\ Called("set store")
  /\ last.arg.type \in StoreTypes

\* A read answered, under encryption, with a record the cipher failed on when
\* it was saved: the plaintext fall-back.
FallBackRead ==
  /\ Truthy(opt.encrypt)
  /\ CalledBack("readSession")
  /\ ~Truthy(last.e)
  /\ last.data.t = "object"
  /\ UtilEncrypt(last.data, last.arg.id) = JsFalse

\* C18: with encryption enabled, the record saveSession hands to the backend
\* is the marker followed by the ciphertext of the data under the raw
\* identifier, or the data unchanged when the cipher reports failure; a read
\* answered with such a plaintext fall-back record returns it unchanged.
C18_EncryptedRecord ==
  /\ (Truthy(opt.encrypt) /\ Called("saveSession") /\ Len(last.issued) = 1) =>
       LET ciphertext == UtilEncrypt(last.arg.data, last.arg.id)
       IN last.issued[1].value =
            IF ciphertext = JsFalse THEN last.arg.data
            ELSE Str(<<ENC_SPLIT>> \o ciphertext.s)
  /\ FallBackRead =>
       last.dones = <<Done(Null, IF last.arg.build = JsFalse THEN last.data
                                 ELSE SessionData(last.arg.id, last.data, FALSE))>>

\* A fall-back record has been saved and read back, and the storage holds an
\* enciphered record as well.
C18_Witness ==
  /\ FallBackRead
  /\ \E key \in DOMAIN storage :
       /\ storage[key].t = "string"
       /\ storage[key].s # <<>>
       /\ storage[key].s[1] = ENC_SPLIT
       /\ key # last.arg.key

ReadsBack(call, w) ==
  <<Done(Null, IF w.op = "destroy" THEN Null
               ELSE IF call.build = JsFalse THEN w.value
               ELSE SessionData(call.id, w.value, FALSE))>>

\* A read was answered without error, encryption disabled, that had been
\* issued after a write of its identifier had completed, a destroy or a save
\* of structured data, and before any later save or destroy of the identifier.
ReadAfterWrite ==
  /\ ~Truthy(opt.encrypt)
  /\ CalledBack("readSession")
  /\ ~Truthy(last.e)
  /\ last.arg.seen # Undefined
  /\ (last.arg.seen.op = "save" => last.arg.seen.value.t = "object")

\* C20 as it was stated: a read issued after a save or a destroy of its
\* identifier has completed, and before any later save or destroy of it,
\* completes with what that write left.
C20_ReadYourWrite ==
  ReadAfterWrite => last.dones = ReadsBack(last.arg, last.arg.seen)

\* No save or destroy of the identifier has been issued since the read was.
Undisturbed ==
  /\ last.arg.id \in DOMAIN written
  /\ written[last.arg.id] = last.arg.seen

\* C20: with encryption disabled, a read issued after a save of structured
\* data d under x has completed with (null, true) completes with a new
\* payload bound to x that carries d, and a read issued after a destroy of x
\* has completed without error completes with no payload, provided that no
\* other save or destroy of x was in flight when the write completed and none
\* is issued before the backend answers the read.
C20_QuietReadYourWrite ==
  (ReadAfterWrite /\ Undisturbed) =>
    last.dones = ReadsBack(last.arg, last.arg.seen)

\* A payload was built from the record an undisturbed save had left.
C20_Witness ==
  /\ ReadAfterWrite
  /\ Undisturbed
  /\ last.arg.seen.op = "save"
  /\ last.dones[1].res = SessionData(last.arg.id, last.arg.seen.value, FALSE)

\* No payload was found after an undisturbed destroy of a saved session.
C20_DestroyedWitness ==
  /\ ReadAfterWrite
  /\ Undisturbed
  /\ last.arg.seen.op = "destroy"
  /\ last.dones = <<Done(Null, Null)>>

====
